---- MODULE Spec2Model ----
(***************************************************************************)
(* httptester: a request builder (ReqBuilder) that executes against a      *)
(* shared *http.Client, and the Response wrapper with its assertions.      *)
(*                                                                         *)
(* Five state machines over one set of variables:                          *)
(*   Spec          builders sharing one client, Do() split at every access *)
(*                 to client.CheckRedirect (the redirect policy)           *)
(*   SpecBody      one builder: Body/JSON/File, Do(), the multipart        *)
(*                 goroutine and the transport reading the pipe            *)
(*   SpecBodyFair  SpecBody with the scheduler's fairness                  *)
(*   SpecQ         ReqBuilder.Q on the query mapping                       *)
(*   SpecResponse  the assertions of one Response                          *)
(***************************************************************************)
EXTENDS Naturals, Sequences, FiniteSets

\* ---------------------------------------------------------------- bounds
NumBuilders == 2
MaxRuns == 2
MaxSink == 1
\* File: number of extra fields and of content chunks a caller may pass
MaxFields == 1
MaxContent == 1
\* Q: number of key/value pairs in one call
MaxPairs == 2
\* Response: length of the buffered body, length of an assertion chain,
\* length of the list of codes given to Status
MaxBody == 2
MaxCalls == 2
MaxStatuses == 2

Builders == 1..NumBuilders
\* the builder the single-builder machines act on
B1 == CHOOSE b \in Builders : \A c \in Builders : b <= c

\* ------------------------------------------------------------ vocabulary
\* client.CheckRedirect: nil (the default, following policy), a policy the
\* owner of the client installed, or the closure Do installs for NoFollow.
ClientPolicies == {"nil", "custom"}
StopPolicy == "stop"

\* the extra form fields a caller may pass to File
Fields == 1..MaxFields
\* the chunks of a multipart body: a section and, for a field, which one
FieldChunk(k) == <<"field", k>>
HeaderChunk == <<"header", 0>>
ContentChunk == <<"content", 0>>
BoundaryChunk == <<"boundary", 0>>
NoChunk == <<"none", 0>>
\* a content reader that never fails
NoFail == MaxContent + 2

\* b.url values: baseURL + url parses, or carries an invalid escape.
Urls == {"/", "/%zz"}
\* b.method values: unset, a valid token, an invalid token.
Methods == {"", "GET", "BAD METHOD"}
\* the method and url a caller passes to Method: GET of a good url, GET of
\* a url that does not parse, a method NewRequest rejects
Targets == {<<"GET", "/">>, <<"GET", "/%zz">>, <<"BAD METHOD", "/">>}

VARIABLES
    CheckRedirect,      \* client.CheckRedirect
    clientPolicy,       \* client.CheckRedirect as the owner of the client set it
    serialUse,          \* the caller's discipline: Do calls on the client never overlap
    url, method,        \* b.url, b.method
    noFollow,           \* b.noFollow
    headers,            \* b.headers["Content-Type"] ("" when not set)
    body,               \* b.body: "nil", "reader", "empty" or "pipe"
    onErrorCalls,       \* number of times b.onError was invoked
    pc,                 \* where each builder's Do call stands
    oldCheckRedirect,   \* Do's local oldCheckRedirect
    reqBody,            \* Do's local req: its Body ("none" before NewRequest)
    res,                \* Do's local res after client.Do: "nil", "ok", "unreadable"
    err,                \* Do's local err after client.Do
    ret,                \* what the last Do call returned: "none", "nil", "response"
    runs,               \* Do calls made so far, over all builders
    startPolicy,        \* client.CheckRedirect when the running Do call began
    doSink,             \* b.onError invocations made by the current/last Do call
    dispatched,         \* client.Do calls made by the current/last Do call
    query,              \* b.query (url.Values): key -> list of values
    qArgs, qBefore,     \* the arguments of the last Q call and b.query before it
    prodPC,             \* where File's goroutine stands
    prodErr,            \* the goroutine's err variable is non-nil
    extraLeft,          \* entries of `extra` the range loop has not visited
    contentLeft,        \* chunks the content reader still holds
    contentFail,        \* chunks after which the content reader fails (NoFail: never)
    fileArgs,           \* the arguments File was called with, and the value of runs then
    pending,            \* the chunk a blocked PipeWriter.Write offers (NoChunk: none)
    werr,               \* pipe write end: "open", "EOF" (Close) or "error" (CloseWithError)
    rclosed,            \* pipe read end was closed
    prodWait,           \* the goroutine is inside PipeWriter.Write
    received,           \* chunks the transport read from the body
    consumerSaw,        \* what the transport's last Read returned at the end of the stream
    resp,               \* the Response last constructed (NoResponse before)
    resp0,              \* its fields at construction
    respCalls,          \* calls made on it
    respFailing,        \* calls made on it whose own check fails
    respSink,           \* sink invocations made by those calls
    respRet,            \* what the last call on it returned
    respLast            \* the last call made on it and its arguments

clientVars == <<CheckRedirect, clientPolicy, serialUse>>
builderVars == <<url, method, noFollow, headers, body, onErrorCalls>>
doVars == <<pc, oldCheckRedirect, reqBody, res, err, ret, runs, startPolicy, doSink, dispatched>>
queryVars == <<query, qArgs, qBefore>>
pipeVars == <<prodPC, prodErr, extraLeft, contentLeft, contentFail, fileArgs,
              pending, werr, rclosed, prodWait, received, consumerSaw>>
respVars == <<resp, resp0, respCalls, respFailing, respSink, respRet, respLast>>
vars == <<clientVars, builderVars, doVars, queryVars, pipeVars, respVars>>

\* ------------------------------------------------------------- helpers
\* url.Parse(b.baseURL + b.url) succeeds
URLParses(u) == u # "/%zz"

\* http.NewRequestWithContext accepts the method ("" means GET)
ValidMethod(m) == m # "BAD METHOD"

\* a Do call of b is between its entry and its return
InDo(b) == pc[b] # "idle"

\* what the server of TestReqBuilder answers: status 409 and a text body
ServerResponses ==
    { [StatusCode |-> 409, ContentType |-> <<"text/plain">>, Body |-> <<"x">>] }

\* no Response was constructed yet
NoResponse == [StatusCode |-> 0, ContentType |-> <<>>, Body |-> <<>>]

\* the body of the request http.NewRequestWithContext builds from b.body:
\* none for a nil reader, http.NoBody for a *bytes.Reader of length 0,
\* the reader itself otherwise
RequestBody(bd) ==
    CASE bd = "nil" -> "none"
      [] bd = "empty" -> "NoBody"
      [] OTHER -> bd

\* NewResponse, the path where ioutil.ReadAll succeeds: the wrapper buffers
\* the body and embeds the *http.Response
NewResponse(r) ==
    [StatusCode |-> r.StatusCode, ContentType |-> r.ContentType, Body |-> r.Body]

\* ---------------------------------------------------------------- Init
\* NewReqBuilder for every builder, all given the same client; no Do call,
\* no File goroutine and no Response yet.
InitRequest ==
    /\ CheckRedirect \in ClientPolicies
    /\ clientPolicy = CheckRedirect
    /\ serialUse \in BOOLEAN
    /\ url = [b \in Builders |-> "/"]
    /\ method = [b \in Builders |-> ""]
    /\ noFollow = [b \in Builders |-> FALSE]
    /\ headers = [b \in Builders |-> ""]
    /\ body = [b \in Builders |-> "nil"]
    /\ onErrorCalls = [b \in Builders |-> 0]
    /\ pc = [b \in Builders |-> "idle"]
    /\ oldCheckRedirect = [b \in Builders |-> "nil"]
    /\ reqBody = [b \in Builders |-> "none"]
    /\ res = [b \in Builders |-> "nil"]
    /\ err = [b \in Builders |-> FALSE]
    /\ runs = 0
    /\ startPolicy = [b \in Builders |-> "none"]
    /\ doSink = [b \in Builders |-> 0]
    /\ dispatched = [b \in Builders |-> 0]
    /\ query = [b \in Builders |-> [k \in {} |-> <<>>]]
    /\ qArgs = <<>>
    /\ qBefore = [k \in {} |-> <<>>]
    /\ prodPC = "none"
    /\ prodErr = FALSE
    /\ extraLeft = {}
    /\ contentLeft = 0
    /\ contentFail = NoFail
    /\ fileArgs = [extra |-> {}, n |-> 0, fail |-> NoFail, at |-> 0]
    /\ pending = NoChunk
    /\ werr = "open"
    /\ rclosed = FALSE
    /\ prodWait = FALSE
    /\ received = <<>>
    /\ consumerSaw = "none"
    /\ respCalls = 0
    /\ respFailing = 0
    /\ respSink = 0
    /\ respRet = "none"
    /\ respLast = [op |-> "none", arg |-> <<>>]

Init ==
    /\ InitRequest
    /\ ret = [b \in Builders |-> "none"]
    /\ resp = NoResponse
    /\ resp0 = NoResponse

\* ------------------------------------------------- configuration calls
\* The caller drives one builder from one thread: no configuration call
\* runs while that builder's Do is running.

Method(b, m, u) ==
    /\ pc[b] = "idle"
    /\ method' = [method EXCEPT ![b] = m]
    /\ url' = [url EXCEPT ![b] = u]
    /\ UNCHANGED <<noFollow, headers, body, onErrorCalls>>
    /\ UNCHANGED <<clientVars, doVars, queryVars, pipeVars, respVars>>

NoFollow(b) ==
    /\ pc[b] = "idle"
    /\ noFollow' = [noFollow EXCEPT ![b] = TRUE]
    /\ UNCHANGED <<url, method, headers, body, onErrorCalls>>
    /\ UNCHANGED <<clientVars, doVars, queryVars, pipeVars, respVars>>

Body(b) ==
    /\ pc[b] = "idle"
    /\ body' = [body EXCEPT ![b] = "reader"]
    /\ UNCHANGED <<url, method, noFollow, headers, onErrorCalls>>
    /\ UNCHANGED <<clientVars, doVars, queryVars, pipeVars, respVars>>

\* JSON with a return added after b.onError(err)
JSON_ReturnOnError(b, marshalOK) ==
    /\ pc[b] = "idle"
    /\ marshalOK \/ onErrorCalls[b] < MaxSink
    /\ headers' = [headers EXCEPT ![b] = "application/json"]
    /\ onErrorCalls' = [onErrorCalls EXCEPT ![b] = IF marshalOK THEN @ ELSE @ + 1]
    /\ body' = [body EXCEPT ![b] = IF marshalOK THEN "reader" ELSE @]
    /\ UNCHANGED <<url, method, noFollow>>
    /\ UNCHANGED <<clientVars, doVars, queryVars, pipeVars, respVars>>

\* JSON: the header, json.Marshal, b.onError(err) when it fails, and in
\* both cases b.Body(bytes.NewReader(jsonBytes)): of the nil slice when
\* json.Marshal failed, a reader of length 0
JSON(b, marshalOK) ==
    /\ pc[b] = "idle"
    /\ marshalOK \/ onErrorCalls[b] < MaxSink
    /\ headers' = [headers EXCEPT ![b] = "application/json"]
    /\ onErrorCalls' = [onErrorCalls EXCEPT ![b] = IF marshalOK THEN @ ELSE @ + 1]
    /\ body' = [body EXCEPT ![b] = IF marshalOK THEN "reader" ELSE "empty"]
    /\ UNCHANGED <<url, method, noFollow>>
    /\ UNCHANGED <<clientVars, doVars, queryVars, pipeVars, respVars>>

\* File: io.Pipe, the goroutine is started, the header and the body are
\* set. `extra` is the set of extra fields, n the number of chunks the
\* content reader holds, fail the number of chunks after which it fails.
\* The model follows one pipe: File is called once.
File(b, extra, n, fail) ==
    /\ pc[b] = "idle"
    /\ prodPC = "none"
    /\ prodPC' = "fields"
    /\ extraLeft' = extra
    /\ contentLeft' = n
    /\ contentFail' = fail
    /\ fileArgs' = [extra |-> extra, n |-> n, fail |-> fail, at |-> runs]
    /\ headers' = [headers EXCEPT ![b] = "multipart/form-data"]
    /\ body' = [body EXCEPT ![b] = "pipe"]
    /\ UNCHANGED <<prodErr, pending, werr, rclosed, prodWait, received, consumerSaw>>
    /\ UNCHANGED <<url, method, noFollow, onErrorCalls>>
    /\ UNCHANGED <<clientVars, doVars, queryVars, respVars>>

\* ------------------------------------------------- the File goroutine
\* A PipeWriter.Write offers its chunk and blocks until the reader took it
\* (it returns nil) or the read end was closed (it returns ErrClosedPipe).
\* One chunk stands for the writes of one section of the multipart body.

\* w.CloseWithError(err) and w.Close(): the first close decides
CloseWrite(e) == IF werr = "open" THEN e ELSE werr

\* for k, v := range extra { err = writer.WriteField(k, v) ...
ProdWriteField(k) ==
    /\ prodPC = "fields" /\ ~prodWait
    /\ k \in extraLeft
    /\ extraLeft' = extraLeft \ {k}
    /\ pending' = FieldChunk(k)
    /\ prodWait' = TRUE
    /\ UNCHANGED <<prodPC, prodErr, contentLeft, contentFail, fileArgs, werr, rclosed, received, consumerSaw>>
    /\ UNCHANGED <<clientVars, builderVars, doVars, queryVars, respVars>>

\* part, err := writer.CreateFormFile(fieldName, fileName)
ProdCreateFormFile ==
    /\ prodPC = "fields" /\ ~prodWait
    /\ extraLeft = {}
    /\ prodPC' = "header"
    /\ pending' = HeaderChunk
    /\ prodWait' = TRUE
    /\ UNCHANGED <<prodErr, extraLeft, contentLeft, contentFail, fileArgs, werr, rclosed, received, consumerSaw>>
    /\ UNCHANGED <<clientVars, builderVars, doVars, queryVars, respVars>>

\* ProdCopy where the failure of the reader is taken for its end
ProdCopy_ErrorAsEOF ==
    /\ prodPC = "copy" /\ ~prodWait
    /\ IF contentLeft > 0 /\ fileArgs.n - contentLeft # contentFail
       THEN /\ contentLeft' = contentLeft - 1
            /\ pending' = ContentChunk
            /\ prodWait' = TRUE
            /\ UNCHANGED <<prodPC, prodErr, werr>>
       ELSE /\ prodPC' = "boundary"
            /\ pending' = BoundaryChunk
            /\ prodWait' = TRUE
            /\ UNCHANGED <<prodErr, werr, contentLeft>>
    /\ UNCHANGED <<extraLeft, contentFail, fileArgs, rclosed, received, consumerSaw>>
    /\ UNCHANGED <<clientVars, builderVars, doVars, queryVars, respVars>>

\* _, err = io.Copy(part, reader): one round of its loop. The reader
\* fails: w.CloseWithError(err) and return (the deferred writer.Close()
\* then writes to a closed pipe and the deferred func sees err != nil).
\* The reader has a chunk: it is written. The reader is at its end: return,
\* and the deferred writer.Close() writes the closing boundary.
ProdCopy ==
    /\ prodPC = "copy" /\ ~prodWait
    /\ IF fileArgs.n - contentLeft = contentFail
       THEN /\ prodErr' = TRUE
            /\ werr' = CloseWrite("error")
            /\ prodPC' = "done"
            /\ UNCHANGED <<pending, prodWait, contentLeft>>
       ELSE IF contentLeft > 0
       THEN /\ contentLeft' = contentLeft - 1
            /\ pending' = ContentChunk
            /\ prodWait' = TRUE
            /\ UNCHANGED <<prodPC, prodErr, werr>>
       ELSE /\ prodPC' = "boundary"
            /\ pending' = BoundaryChunk
            /\ prodWait' = TRUE
            /\ UNCHANGED <<prodErr, werr, contentLeft>>
    /\ UNCHANGED <<extraLeft, contentFail, fileArgs, rclosed, received, consumerSaw>>
    /\ UNCHANGED <<clientVars, builderVars, doVars, queryVars, respVars>>

\* the blocked Write returns nil: the reader took the chunk. After the
\* closing boundary the deferred func runs with err == nil: w.Close().
ProdWriteReturn ==
    /\ prodWait /\ pending = NoChunk
    /\ prodWait' = FALSE
    /\ prodPC' = CASE prodPC = "header" -> "copy"
                   [] prodPC = "boundary" -> "done"
                   [] OTHER -> prodPC
    /\ werr' = IF prodPC = "boundary" THEN CloseWrite("EOF") ELSE werr
    /\ UNCHANGED <<prodErr, extraLeft, contentLeft, contentFail, fileArgs, pending, rclosed, received, consumerSaw>>
    /\ UNCHANGED <<clientVars, builderVars, doVars, queryVars, respVars>>

\* the blocked Write returns ErrClosedPipe: the read end was closed.
\* WriteField, CreateFormFile and io.Copy set err: w.CloseWithError(err)
\* and return. The error of the deferred writer.Close() is dropped, err
\* is nil and the deferred func calls w.Close().
ProdWriteFail ==
    /\ prodWait /\ pending # NoChunk /\ rclosed
    /\ prodWait' = FALSE
    /\ pending' = NoChunk
    /\ prodPC' = "done"
    /\ prodErr' = (prodPC # "boundary")
    /\ werr' = IF prodPC = "boundary" THEN CloseWrite("EOF") ELSE CloseWrite("error")
    /\ UNCHANGED <<extraLeft, contentLeft, contentFail, fileArgs, rclosed, received, consumerSaw>>
    /\ UNCHANGED <<clientVars, builderVars, doVars, queryVars, respVars>>

Producer ==
    \/ \E k \in Fields : ProdWriteField(k)
    \/ ProdCreateFormFile
    \/ ProdCopy
    \/ ProdWriteReturn
    \/ ProdWriteFail

\* ------------------------------- the transport reading the request body
\* PipeReader.Read during client.Do: the error of a closed write end (EOF
\* after Close), else the chunk a Write offers, else it blocks. The
\* transport stops reading at the end of the stream.
TransportRead(b) ==
    /\ pc[b] = "inflight" /\ reqBody[b] = "pipe"
    /\ ~rclosed /\ consumerSaw = "none"
    /\ werr # "open" \/ pending # NoChunk
    /\ IF werr # "open"
       THEN /\ consumerSaw' = werr
            /\ UNCHANGED <<pending, received>>
       ELSE /\ received' = Append(received, pending)
            /\ pending' = NoChunk
            /\ UNCHANGED consumerSaw
    /\ UNCHANGED <<prodPC, prodErr, extraLeft, contentLeft, contentFail, fileArgs, werr, rclosed, prodWait>>
    /\ UNCHANGED <<clientVars, builderVars, doVars, queryVars, respVars>>

\* the transport closes the request body: at the end of the stream, or
\* before it when it gives the request up
TransportClose(b) ==
    /\ pc[b] = "inflight" /\ reqBody[b] = "pipe"
    /\ ~rclosed
    /\ rclosed' = TRUE
    /\ UNCHANGED <<prodPC, prodErr, extraLeft, contentLeft, contentFail, fileArgs, pending, werr, prodWait, received, consumerSaw>>
    /\ UNCHANGED <<clientVars, builderVars, doVars, queryVars, respVars>>

\* ------------------------------------------------------------------ Do
\* Do is cut at every access to the shared client: the read of
\* client.CheckRedirect, the write that installs the closure, client.Do
\* (its start and its return) and the write that restores.

\* url.Parse, the query merge, http.NewRequestWithContext, the headers
DoParse(b) ==
    /\ pc[b] = "idle"
    /\ runs < MaxRuns
    /\ runs' = runs + 1
    /\ serialUse => \A c \in Builders : pc[c] = "idle"
    /\ oldCheckRedirect' = [oldCheckRedirect EXCEPT ![b] = "nil"]
    /\ err' = [err EXCEPT ![b] = FALSE]
    /\ res' = [res EXCEPT ![b] = "nil"]
    /\ dispatched' = [dispatched EXCEPT ![b] = 0]
    /\ IF URLParses(url[b]) /\ ValidMethod(method[b])
       THEN /\ pc' = [pc EXCEPT ![b] = "save"]
            /\ reqBody' = [reqBody EXCEPT ![b] = RequestBody(body[b])]
            /\ ret' = [ret EXCEPT ![b] = "none"]
            /\ doSink' = [doSink EXCEPT ![b] = 0]
            /\ startPolicy' = [startPolicy EXCEPT ![b] = CheckRedirect]
            /\ UNCHANGED onErrorCalls
       ELSE /\ onErrorCalls' = [onErrorCalls EXCEPT ![b] = @ + 1]
            /\ doSink' = [doSink EXCEPT ![b] = 1]
            /\ ret' = [ret EXCEPT ![b] = "nil"]
            /\ reqBody' = [reqBody EXCEPT ![b] = "none"]
            /\ UNCHANGED <<pc, startPolicy>>
    /\ UNCHANGED <<url, method, noFollow, headers, body>>
    /\ UNCHANGED <<clientVars, queryVars, pipeVars, respVars>>

\* DoSave with the read moved after the write of DoInstall
DoSave_AfterInstall(b) ==
    /\ pc[b] = "save"
    /\ oldCheckRedirect' = [oldCheckRedirect EXCEPT ![b] = IF noFollow[b] THEN StopPolicy ELSE CheckRedirect]
    /\ pc' = [pc EXCEPT ![b] = "install"]
    /\ UNCHANGED <<reqBody, res, err, ret, runs, startPolicy, doSink, dispatched>>
    /\ UNCHANGED <<clientVars, builderVars, queryVars, pipeVars, respVars>>

\* oldCheckRedirect := b.client.CheckRedirect
DoSave(b) ==
    /\ pc[b] = "save"
    /\ oldCheckRedirect' = [oldCheckRedirect EXCEPT ![b] = CheckRedirect]
    /\ pc' = [pc EXCEPT ![b] = "install"]
    /\ UNCHANGED <<reqBody, res, err, ret, runs, startPolicy, doSink, dispatched>>
    /\ UNCHANGED <<clientVars, builderVars, queryVars, pipeVars, respVars>>

\* DoInstall without the test of b.noFollow
DoInstall_Always(b) ==
    /\ pc[b] = "install"
    /\ CheckRedirect' = StopPolicy
    /\ pc' = [pc EXCEPT ![b] = "dispatch"]
    /\ UNCHANGED <<oldCheckRedirect, reqBody, res, err, ret, runs, startPolicy, doSink, dispatched>>
    /\ UNCHANGED <<clientPolicy, serialUse, builderVars, queryVars, pipeVars, respVars>>

\* if b.noFollow { b.client.CheckRedirect = func ... ErrUseLastResponse }
DoInstall(b) ==
    /\ pc[b] = "install"
    /\ CheckRedirect' = IF noFollow[b] THEN StopPolicy ELSE CheckRedirect
    /\ pc' = [pc EXCEPT ![b] = "dispatch"]
    /\ UNCHANGED <<oldCheckRedirect, reqBody, res, err, ret, runs, startPolicy, doSink, dispatched>>
    /\ UNCHANGED <<clientPolicy, serialUse, builderVars, queryVars, pipeVars, respVars>>

\* b.client.Do(req) is entered: the transport starts to send the request
DoDispatch(b) ==
    /\ pc[b] = "dispatch"
    /\ dispatched' = [dispatched EXCEPT ![b] = @ + 1]
    /\ pc' = [pc EXCEPT ![b] = "inflight"]
    /\ UNCHANGED <<oldCheckRedirect, reqBody, res, err, ret, runs, startPolicy, doSink>>
    /\ UNCHANGED <<clientVars, builderVars, queryVars, pipeVars, respVars>>

\* b.client.Do(req) returns res, err (the afterRequest hook only observes
\* them). The client consults CheckRedirect when the response arrives. A
\* transport that read an error from the request body fails; it closes a
\* request body before it returns. `readable`: the response body can be
\* read to its end.
DoReturn(b, failed, readable) ==
    /\ pc[b] = "inflight"
    /\ reqBody[b] = "pipe" => rclosed
    /\ (reqBody[b] = "pipe" /\ consumerSaw = "error") => failed
    /\ err' = [err EXCEPT ![b] = failed]
    /\ res' = [res EXCEPT ![b] = IF failed THEN "nil" ELSE IF readable THEN "ok" ELSE "unreadable"]
    /\ pc' = [pc EXCEPT ![b] = "restore"]
    /\ UNCHANGED <<oldCheckRedirect, reqBody, ret, runs, startPolicy, doSink, dispatched>>
    /\ UNCHANGED <<clientVars, builderVars, queryVars, pipeVars, respVars>>

\* DoRestore placed after the early return on a dispatch error
DoRestore_SkipOnError(b) ==
    /\ pc[b] = "restore"
    /\ CheckRedirect' = IF err[b] THEN CheckRedirect ELSE oldCheckRedirect[b]
    /\ pc' = [pc EXCEPT ![b] = "finish"]
    /\ UNCHANGED <<oldCheckRedirect, reqBody, res, err, ret, runs, startPolicy, doSink, dispatched>>
    /\ UNCHANGED <<clientPolicy, serialUse, builderVars, queryVars, pipeVars, respVars>>

\* b.client.CheckRedirect = oldCheckRedirect
DoRestore(b) ==
    /\ pc[b] = "restore"
    /\ CheckRedirect' = oldCheckRedirect[b]
    /\ pc' = [pc EXCEPT ![b] = "finish"]
    /\ UNCHANGED <<oldCheckRedirect, reqBody, res, err, ret, runs, startPolicy, doSink, dispatched>>
    /\ UNCHANGED <<clientPolicy, serialUse, builderVars, queryVars, pipeVars, respVars>>

\* DoFinish with a NewResponse that reports the read error and goes on
DoFinish_NoReturnOnReadError(b, r) ==
    /\ pc[b] = "finish"
    /\ pc' = [pc EXCEPT ![b] = "idle"]
    /\ IF err[b]
       THEN /\ onErrorCalls' = [onErrorCalls EXCEPT ![b] = @ + 1]
            /\ doSink' = [doSink EXCEPT ![b] = @ + 1]
            /\ ret' = [ret EXCEPT ![b] = "nil"]
            /\ UNCHANGED respVars
       ELSE /\ ret' = [ret EXCEPT ![b] = "response"]
            /\ resp' = NewResponse(r)
            /\ resp0' = NewResponse(r)
            /\ respCalls' = 0
            /\ respFailing' = 0
            /\ respSink' = 0
            /\ respRet' = "none"
            /\ respLast' = [op |-> "none", arg |-> <<>>]
            /\ onErrorCalls' = [onErrorCalls EXCEPT ![b] = IF res[b] = "ok" THEN @ ELSE @ + 1]
            /\ doSink' = [doSink EXCEPT ![b] = IF res[b] = "ok" THEN @ ELSE @ + 1]
    /\ err' = [err EXCEPT ![b] = FALSE]
    /\ res' = [res EXCEPT ![b] = "nil"]
    /\ oldCheckRedirect' = [oldCheckRedirect EXCEPT ![b] = "nil"]
    /\ startPolicy' = [startPolicy EXCEPT ![b] = "none"]
    /\ UNCHANGED <<url, method, noFollow, headers, body, reqBody, runs, dispatched>>
    /\ UNCHANGED <<clientVars, queryVars, pipeVars>>

\* if err != nil { b.onError(err); return nil }; return NewResponse(...),
\* which reports and returns nil when the response body cannot be read
DoFinish(b, r) ==
    /\ pc[b] = "finish"
    /\ pc' = [pc EXCEPT ![b] = "idle"]
    /\ IF err[b] \/ res[b] # "ok"
       THEN /\ onErrorCalls' = [onErrorCalls EXCEPT ![b] = @ + 1]
            /\ doSink' = [doSink EXCEPT ![b] = @ + 1]
            /\ ret' = [ret EXCEPT ![b] = "nil"]
            /\ UNCHANGED respVars
       ELSE /\ ret' = [ret EXCEPT ![b] = "response"]
            /\ resp' = NewResponse(r)
            /\ resp0' = NewResponse(r)
            /\ respCalls' = 0
            /\ respFailing' = 0
            /\ respSink' = 0
            /\ respRet' = "none"
            /\ respLast' = [op |-> "none", arg |-> <<>>]
            /\ UNCHANGED <<onErrorCalls, doSink>>
    /\ err' = [err EXCEPT ![b] = FALSE]
    /\ res' = [res EXCEPT ![b] = "nil"]
    /\ oldCheckRedirect' = [oldCheckRedirect EXCEPT ![b] = "nil"]
    /\ startPolicy' = [startPolicy EXCEPT ![b] = "none"]
    /\ UNCHANGED <<url, method, noFollow, headers, body, reqBody, runs, dispatched>>
    /\ UNCHANGED <<clientVars, queryVars, pipeVars>>

Do(b) ==
    \/ DoParse(b)
    \/ DoSave(b)
    \/ DoInstall(b)
    \/ DoDispatch(b)
    \/ \E failed, readable \in BOOLEAN : DoReturn(b, failed, readable)
    \/ DoRestore(b)
    \/ \E r \in ServerResponses : DoFinish(b, r)

\* ------------------------------------------- builders sharing a client
\* Every builder targets a URL that parses; what a Do call that fails
\* before the dispatch does is part of SpecBody.
Next ==
    \E b \in Builders :
        \/ NoFollow(b)
        \/ Do(b)

Spec == Init /\ [][Next]_vars

\* ------------------------------- one builder, its body and its Do calls
FileArgs ==
    { a \in [extra : SUBSET Fields, n : 0..MaxContent, fail : 0..MaxContent \cup {NoFail}] :
        /\ Cardinality(a.extra) <= MaxFields
        /\ a.fail <= a.n \/ a.fail = NoFail }

Caller ==
    \/ \E t \in Targets : Method(B1, t[1], t[2])
    \/ Body(B1)
    \/ \E ok \in BOOLEAN : JSON(B1, ok)
    \/ \E a \in FileArgs : File(B1, a.extra, a.n, a.fail)
    \/ DoParse(B1)

\* what runs once the caller has called Do: the rest of Do and the transport
Running ==
    \/ DoSave(B1)
    \/ DoInstall(B1)
    \/ DoDispatch(B1)
    \/ TransportRead(B1)
    \/ TransportClose(B1)
    \/ \E failed, readable \in BOOLEAN : DoReturn(B1, failed, readable)
    \/ DoRestore(B1)
    \/ \E r \in ServerResponses : DoFinish(B1, r)

NextBody == Caller \/ Running \/ Producer

\* the client is http.DefaultClient, as in TestReqBuilder
InitBody == Init /\ CheckRedirect = "nil" /\ serialUse

SpecBody == InitBody /\ [][NextBody]_vars

\* The Go scheduler runs a goroutine that can run, and a Do call that was
\* entered runs to its end; nothing makes the caller call again.
SpecBodyFair == SpecBody /\ WF_vars(Producer) /\ WF_vars(Running)

\* ------------------------------------------------------- ReqBuilder.Q
QPairs == {<<"a", "1">>, <<"a", "2">>, <<"a", "3">>, <<"b", "1">>}

\* url.Values.Set and url.Values.Add
ValuesSet(q, key, value) ==
    [k \in DOMAIN q \cup {key} |-> IF k = key THEN <<value>> ELSE q[k]]
ValuesAdd(q, key, value) ==
    [k \in DOMAIN q \cup {key} |->
        IF k = key THEN (IF key \in DOMAIN q THEN Append(q[key], value) ELSE <<value>>)
        ELSE q[k]]

\* the loop of ReqBuilder.Q as the other request.go of the repository has
\* it: b.query.Set for every pair
RECURSIVE QLoop_AlwaysSet(_, _, _, _)
QLoop_AlwaysSet(q, keys, args, i) ==
    IF i >= Len(args) \div 2 THEN q
    ELSE QLoop_AlwaysSet(ValuesSet(q, args[i * 2 + 1], args[i * 2 + 2]), keys, args, i + 1)

\* the loop of ReqBuilder.Q from its round i on (args is 1-based here:
\* args[i*2] of the source is args[i * 2 + 1]); keys is the map of the
\* keys this call has seen
RECURSIVE QLoop(_, _, _, _)
QLoop(q, keys, args, i) ==
    IF i >= Len(args) \div 2 THEN q
    ELSE LET key == args[i * 2 + 1]
             value == args[i * 2 + 2]
         IN  QLoop(IF key \in keys THEN ValuesAdd(q, key, value) ELSE ValuesSet(q, key, value),
                   keys \cup {key}, args, i + 1)

Q(b, args) ==
    /\ pc[b] = "idle"
    /\ query' = [query EXCEPT ![b] = QLoop(query[b], {}, args, 0)]
    /\ qArgs' = args
    /\ qBefore' = query[b]
    /\ UNCHANGED <<clientVars, builderVars, doVars, pipeVars, respVars>>

\* the argument lists of a call: up to MaxPairs key/value pairs, and
\* possibly a key with no value after them
RECURSIVE Flatten(_)
Flatten(ps) == IF ps = <<>> THEN <<>> ELSE <<Head(ps)[1], Head(ps)[2]>> \o Flatten(Tail(ps))
QArgs ==
    { Flatten(ps) \o t :
        ps \in UNION {[1..n -> QPairs] : n \in 0..MaxPairs},
        t \in {<<>>, <<"a">>} }

NextQ == \E args \in QArgs : Q(B1, args)

SpecQ == InitBody /\ [][NextQ]_vars

\* ------------------------------------------------------------ Response
StatusCodes == {200, 201, 409}
BodyChars == {"1", "<a/>"}
ContentTypes ==
    { <<>>, <<"application/json">>, <<"application/json", "; charset=utf-8">>, <<"text/xml">> }
HeaderKeys == {"Content-Type", "X-Other"}
Strings == UNION {[1..n -> BodyChars] : n \in 0..MaxBody}
StatusLists == UNION {[1..n -> StatusCodes] : n \in 0..MaxStatuses}
\* the responses a transport can hand to NewResponse
Responses == [StatusCode : StatusCodes, ContentType : ContentTypes, Body : Strings]

\* strings.HasPrefix and strings.Contains
HasPrefix(str, prefix) ==
    Len(prefix) <= Len(str) /\ SubSeq(str, 1, Len(prefix)) = prefix
Contains_(str, substr) ==
    \E i \in 0..(Len(str) - Len(substr)) : SubSeq(str, i + 1, i + Len(substr)) = substr

\* r.Header.Get(key): the first value of the header, "" when it is absent
HeaderGet(r, key) == IF key = "Content-Type" THEN r.ContentType ELSE <<>>

\* json.Unmarshal and xml.Unmarshal succeed on the buffered body: a JSON
\* number, and a text holding an element
JSONDecodes(bd) == bd # <<>> /\ \A i \in 1..Len(bd) : bd[i] = "1"
XMLDecodes(bd) == \E i \in 1..Len(bd) : bd[i] = "<a/>"

\* Response.Status with `ok = r.StatusCode == status` in its loop
RECURSIVE StatusLoop_LastWins(_, _, _, _)
StatusLoop_LastWins(r, statuses, i, ok) ==
    IF i > Len(statuses) THEN ok
    ELSE StatusLoop_LastWins(r, statuses, i + 1, r.StatusCode = statuses[i])

\* the loop of Response.Status: ok after the statuses from i on
RECURSIVE StatusLoop(_, _, _, _)
StatusLoop(r, statuses, i, ok) ==
    IF i > Len(statuses) THEN ok
    ELSE StatusLoop(r, statuses, i + 1, IF r.StatusCode = statuses[i] THEN TRUE ELSE ok)

\* the number of r.err calls Response.Status makes
StatusReports(r, statuses) ==
    IF Len(statuses) > 0 /\ ~StatusLoop(r, statuses, 1, FALSE) THEN 1 ELSE 0

\* a call on the Response: `reports` calls of r.err, `failing` checks of
\* the call that fail on the Response as it was constructed
Call(op, arg, reports, failing, returned) ==
    /\ ret[B1] = "response"
    /\ respCalls < MaxCalls
    /\ respCalls' = respCalls + 1
    /\ respSink' = respSink + reports
    /\ respFailing' = respFailing + failing
    /\ respRet' = returned
    /\ respLast' = [op |-> op, arg |-> arg]
    /\ UNCHANGED <<resp, resp0>>
    /\ UNCHANGED <<clientVars, builderVars, doVars, queryVars, pipeVars>>

B2N(p) == IF p THEN 1 ELSE 0

Status(statuses) ==
    Call("Status", statuses, StatusReports(resp, statuses),
         B2N(statuses # <<>> /\ \A i \in 1..Len(statuses) : statuses[i] # resp0.StatusCode),
         "self")

\* Response.Contains that checks nothing once the sink was invoked
Contains_SkipAfterFailure(substr) ==
    Call("Contains", substr,
         IF respSink > 0 THEN 0 ELSE B2N(~Contains_(resp.Body, substr)),
         B2N(~Contains_(resp0.Body, substr)), "self")

Contains(substr) ==
    Call("Contains", substr, B2N(~Contains_(resp.Body, substr)),
         B2N(~Contains_(resp0.Body, substr)), "self")

Eq(substr) ==
    Call("Eq", substr, B2N(resp.Body # substr), B2N(resp0.Body # substr), "self")

HeaderEq(key, value) ==
    Call("HeaderEq", <<key, value>>, B2N(HeaderGet(resp, key) # value),
         B2N(HeaderGet(resp0, key) # value), "self")

\* Response.JSON: the Content-Type check reports and goes on; a decode
\* error reports and returns nil
JSONDecode ==
    Call("JSON", <<>>,
         B2N(~HasPrefix(HeaderGet(resp, "Content-Type"), <<"application/json">>))
            + B2N(~JSONDecodes(resp.Body)),
         B2N(~HasPrefix(HeaderGet(resp0, "Content-Type"), <<"application/json">>))
            + B2N(~JSONDecodes(resp0.Body)),
         IF JSONDecodes(resp.Body) THEN "target" ELSE "nil")

XMLDecode ==
    Call("XML", <<>>,
         B2N(~HasPrefix(HeaderGet(resp, "Content-Type"), <<"application/xml">>)
                /\ ~HasPrefix(HeaderGet(resp, "Content-Type"), <<"text/xml">>))
            + B2N(~XMLDecodes(resp.Body)),
         B2N(~HasPrefix(HeaderGet(resp0, "Content-Type"), <<"application/xml">>)
                /\ ~HasPrefix(HeaderGet(resp0, "Content-Type"), <<"text/xml">>))
            + B2N(~XMLDecodes(resp0.Body)),
         IF XMLDecodes(resp.Body) THEN "target" ELSE "nil")

BodyStr == Call("BodyStr", <<>>, 0, 0, "string")

\* a Do call of B1 has returned the Response that NewResponse built from
\* what the transport handed it; no call was made on it yet
InitResponse ==
    /\ InitRequest
    /\ CheckRedirect = "nil" /\ serialUse
    /\ ret = [b \in Builders |-> IF b = B1 THEN "response" ELSE "none"]
    /\ \E r \in Responses : resp = NewResponse(r) /\ resp0 = NewResponse(r)

NextResponse ==
    \/ \E statuses \in StatusLists : Status(statuses)
    \/ \E substr \in Strings : Contains(substr)
    \/ \E substr \in Strings : Eq(substr)
    \/ \E key \in HeaderKeys, value \in ContentTypes : HeaderEq(key, value)
    \/ JSONDecode
    \/ XMLDecode
    \/ BodyStr

SpecResponse == InitResponse /\ [][NextResponse]_vars

\* ================================================================ properties

\* the policy closure of a NoFollow call is installed and not yet restored
Installed(c) == noFollow[c] /\ pc[c] \in {"dispatch", "inflight", "restore"}
\* c has made a Do call to its end
Returned(c) == pc[c] = "idle" /\ ret[c] # "none"
\* c has begun a Do call
Began(c) == pc[c] # "idle" \/ ret[c] # "none"
AllIdle == \A c \in Builders : pc[c] = "idle"

\* C1: when the Do calls on one client do not overlap, a Do call that was
\* dispatched has, after its restore step, put client.CheckRedirect back
\* to the value it had when the call began, with or without NoFollow and
\* whether the dispatch failed or not; and a call without NoFollow is
\* dispatched under the policy the client was given, also after a call
\* with NoFollow.
C1_RestoredWhenSerial ==
    serialUse =>
        \A b \in Builders :
            /\ pc[b] = "finish" => CheckRedirect = startPolicy[b]
            /\ AllIdle => CheckRedirect = clientPolicy
            /\ (~noFollow[b] /\ pc[b] \in {"dispatch", "inflight", "restore"})
                    => CheckRedirect = clientPolicy

\* C1 witness: serialized, a NoFollow builder has returned and a builder
\* without NoFollow has then been dispatched, under the client's own policy.
C1_Witness ==
    /\ serialUse
    /\ \E b, c \in Builders :
        /\ b # c
        /\ noFollow[c] /\ Returned(c)
        /\ ~noFollow[b] /\ pc[b] = "restore"
        /\ CheckRedirect = clientPolicy

\* C8: the policy is left changed after every call has returned only by
\* the race: the calls were not serialized, at least two Do calls ran, a
\* NoFollow builder is among them, and what is left is the stop policy.
C8_LeakOnlyByRace ==
    (AllIdle /\ CheckRedirect # clientPolicy) =>
        /\ ~serialUse
        /\ CheckRedirect = StopPolicy
        /\ runs >= 2
        /\ \E c \in Builders : noFollow[c] /\ Returned(c)

\* C8 witness: two NoFollow builders have both returned from overlapping
\* Do calls and the stop policy is still installed.
C8_Witness ==
    /\ ~serialUse
    /\ AllIdle
    /\ runs = 2
    /\ \E b, c \in Builders : b # c /\ noFollow[b] /\ noFollow[c] /\ Returned(b) /\ Returned(c)
    /\ CheckRedirect = StopPolicy
    /\ CheckRedirect # clientPolicy

\* C9 as stated: under every interleaving a builder without NoFollow is
\* dispatched under the client's own policy and its restore step writes
\* the client's own policy.
C9_Original ==
    [][\A b \in Builders :
        /\ (~noFollow[b] /\ pc[b] = "inflight" /\ pc'[b] = "restore")
                => CheckRedirect = clientPolicy
        /\ (~noFollow[b] /\ pc[b] = "restore" /\ pc'[b] = "finish")
                => CheckRedirect' = clientPolicy]_vars

\* C9 amended: a builder without NoFollow installs no policy of its own.
\* While no builder has called NoFollow the policy stays the client's own;
\* the value such a builder saved, the only one its restore step writes, is
\* the client's own policy or else the stop policy, and the latter only when
\* another builder that called NoFollow has begun a Do call.
C9_PlainInstallsNothing ==
    /\ (\A c \in Builders : ~noFollow[c]) => CheckRedirect = clientPolicy
    /\ \A b \in Builders :
        (~noFollow[b] /\ pc[b] \in {"install", "dispatch", "inflight", "restore"}) =>
            \/ oldCheckRedirect[b] = clientPolicy
            \/ /\ oldCheckRedirect[b] = StopPolicy
               /\ \E c \in Builders \ {b} : noFollow[c] /\ Began(c)

\* C9 witness: the restore step of a builder without NoFollow has written
\* the stop policy back after the NoFollow builder had returned.
C9_Witness ==
    \E b, c \in Builders :
        /\ b # c
        /\ ~noFollow[b] /\ pc[b] = "finish"
        /\ noFollow[c] /\ Returned(c)
        /\ CheckRedirect = StopPolicy
        /\ runs = 2

\* ------------------------------------------------------------ SpecBody

\* the step of JSON(b, .) in which json.Marshal fails: the only call made
\* between two Do calls that reports to the sink
JSONFails(b) ==
    /\ pc[b] = "idle" /\ pc'[b] = "idle" /\ runs' = runs
    /\ onErrorCalls'[b] = onErrorCalls[b] + 1

\* the multipart body of File's arguments a, whole: the extra fields in
\* some order, the header of the file part, the content, the closing boundary
FullStream(s, a) ==
    LET nf == Cardinality(a.extra) IN
    /\ Len(s) = nf + a.n + 2
    /\ {s[i] : i \in 1..nf} = {FieldChunk(k) : k \in a.extra}
    /\ s[nf + 1] = HeaderChunk
    /\ \A i \in (nf + 2)..(nf + 1 + a.n) : s[i] = ContentChunk
    /\ s[Len(s)] = BoundaryChunk

\* C3: the transport reads a clean EOF from the pipe only when it has read
\* the whole multipart body and the goroutine has ended without error; when
\* a write or the copy failed the write end is closed with the error and
\* the transport never reads a clean EOF, and an error it reads at the end
\* of the stream is that failure.
C3_EOFOnlyAfterAll ==
    /\ consumerSaw = "EOF" =>
            FullStream(received, fileArgs) /\ ~prodErr /\ prodPC = "done"
    /\ prodErr => (werr = "error" /\ consumerSaw # "EOF" /\ prodPC = "done")
    /\ consumerSaw = "error" => prodErr

\* C3 witness: the content reader failed in the middle of the copy and the
\* transport, having read the field, the header and a content chunk, reads
\* the error.
C3_Witness ==
    /\ consumerSaw = "error"
    /\ fileArgs.extra # {}
    /\ Len(received) = Cardinality(fileArgs.extra) + 2
    /\ received[Len(received)] = ContentChunk

\* the other case of C3: a clean EOF after the whole body
C3_CleanEOF ==
    consumerSaw = "EOF" /\ fileArgs.extra # {} /\ fileArgs.n = MaxContent

\* C4: a Do call returns a Response without having invoked the sink, or
\* nil having invoked it once. It returns nil without a dispatch exactly
\* when the url does not parse or the request cannot be built, and after a
\* dispatch exactly when client.Do failed or the response body cannot be
\* read; no other step of Do invokes the sink.
C4_TwoOutcomes ==
    [][\A b \in Builders :
        /\ (pc[b] = "idle" /\ pc'[b] = "save") =>
                /\ URLParses(url[b]) /\ ValidMethod(method[b])
                /\ onErrorCalls'[b] = onErrorCalls[b]
        /\ (pc' = pc /\ runs' = runs + 1) =>
                \E c \in Builders :
                    /\ ~(URLParses(url[c]) /\ ValidMethod(method[c]))
                    /\ ret'[c] = "nil" /\ dispatched'[c] = 0 /\ doSink'[c] = 1
                    /\ onErrorCalls'[c] = onErrorCalls[c] + 1
        /\ (pc[b] \notin {"idle", "finish"}) => onErrorCalls'[b] = onErrorCalls[b]
        /\ (pc[b] = "finish" /\ pc'[b] = "idle") =>
                /\ dispatched[b] = 1
                /\ ret'[b] = "nil" <=> (err[b] \/ res[b] = "unreadable")
                /\ ret'[b] = "nil" =>
                        onErrorCalls'[b] = onErrorCalls[b] + 1 /\ doSink'[b] = 1
                /\ ret'[b] # "nil" =>
                        /\ ret'[b] = "response"
                        /\ onErrorCalls'[b] = onErrorCalls[b] /\ doSink'[b] = 0
       ]_vars

\* C4 witness: a Do call was dispatched, failed at the transport or at the
\* read of the response body, and has returned nil with one report.
C4_Witness ==
    Returned(B1) /\ ret[B1] = "nil" /\ dispatched[B1] = 1 /\ doSink[B1] = 1

C10_ProducerTerminates ==
    (prodPC # "none" /\ body[B1] = "pipe" /\ runs > fileArgs.at /\ pc[B1] = "idle")
        ~> (prodPC = "done")

\* the part of C10 that holds: the goroutine ends when the Do call that
\* follows File was dispatched
C10_AfterDispatch ==
    (prodPC # "none" /\ body[B1] = "pipe" /\ runs > fileArgs.at /\ pc[B1] = "idle"
        /\ rclosed)
        ~> (prodPC = "done")

\* the values the pairs of args give for key k, in order, from pair i on
RECURSIVE Occurrences(_, _, _)
Occurrences(args, k, i) ==
    IF i > Len(args) \div 2 THEN <<>>
    ELSE (IF args[2 * i - 1] = k THEN <<args[2 * i]>> ELSE <<>>) \o Occurrences(args, k, i + 1)

C5_StatusReportsOnce ==
    [][(respCalls' = respCalls + 1 /\ respLast'.op = "Status") =>
        /\ respSink' - respSink =
              (IF respLast'.arg # <<>>
                    /\ \A i \in 1..Len(respLast'.arg) : respLast'.arg[i] # resp.StatusCode
               THEN 1 ELSE 0)
        /\ respRet' = "self"
        /\ resp' = resp
      ]_vars

\* C5 witness: Status(200, 201) on a 409 response has reported once.
C5_Witness ==
    /\ resp.StatusCode = 409
    /\ respLast.op = "Status" /\ respLast.arg = <<200, 201>>
    /\ respCalls = 1 /\ respSink = 1

\* C6: after any chain of calls the wrapper holds what it held at
\* construction, a chaining assertion returned the wrapper itself, and the
\* sink was invoked once per check that fails on the construction-time
\* response, whatever was reported before.
C6_WrapperImmutable ==
    /\ resp = resp0
    /\ respSink = respFailing
    /\ respLast.op \in {"Status", "Contains", "Eq", "HeaderEq"} => respRet = "self"

\* C6 witness: two calls in a row have failed and both were reported.
C6_Witness ==
    /\ respCalls = 2 /\ respSink = 2
    /\ respLast.op = "Contains"
    /\ resp = resp0

====
